---- MODULE Spec2Model ----
(***************************************************************************)
(* Stepwise drift removal of running ground reaction forces                *)
(* (src/Drift_Function.py): step_ID, trim_aerial_phases and detrend_force. *)
(*                                                                         *)
(* Arrays are sequences; position k of a sequence is numpy index k-1, and  *)
(* every sample index stored in the state (step_begin_all, points, ...) is *)
(* the 0-based numpy index.  A force sample is <<horizontal, horizontal,   *)
(* vertical>>.  Floating point numbers are exact rationals [n, d] in       *)
(* lowest terms, plus NaN.  The run modelled is the one with plots = False: *)
(* the plotting functions are not part of it.                              *)
(***************************************************************************)
EXTENDS Integers, Sequences, FiniteSets, TLC

VARIABLES
    pc,               \* position in detrend_force / the step_ID harness
    exc,              \* the exception that ended the run ("" while none)
    force,            \* shape of the imported table: [rows, cols]
    Fs,               \* sampling frequency
    min_step,         \* minimum step length in frames
    step_threshold,   \* threshold of detrend_force
    max_step,         \* maximum step length (0.4*Fs in detrend_force)
    force_f,          \* the filtered N x 3 signal
    step_begin_all,   \* validated stance begins
    step_end_all,     \* validated stance ends
    aerial_begin_all, \* step_end_all[:-1]
    aerial_end_all,   \* step_begin_all[1:]
    points,           \* x coordinates ginput(2) returned, until they are checked
    printed,          \* the last line trim_aerial_phases printed
    trim,             \* <<>> until trim_aerial_phases binds it, then <<trim>>
    aerial_means,     \* K-1 x 3 means of the filtered signal
    force_fd,         \* the detrended N x 3 signal
    aerial_means_d,   \* vertical means of the detrended signal
    calls             \* step_ID harness: threshold -> what step_ID gave

vars == <<pc, exc, force, Fs, min_step, step_threshold, max_step, force_f,
          step_begin_all, step_end_all, aerial_begin_all, aerial_end_all,
          points, printed, trim, aerial_means, force_fd, aerial_means_d, calls>>

----------------------------------------------------------------------------
(* Bounds of the model *)

\* longest signal, in samples
MaxN == 8
\* largest x coordinate a selection can carry
MaxClick == 3

\* the samples a signal is drawn from: <<horizontal, horizontal, vertical>>
SampleSet == { <<1, 0 - 1, 0>>, <<2, 0, 3>>, <<0 - 2, 4, 5>> }
Thresholds == {0, 3}
\* the thresholds detrend_force is run with
RunThresholds == {3}
FsSet == {3, 5}
MinSteps == {1, 2}
Clicks == 0..MaxClick

Signals(N) == [1..N -> SampleSet]

----------------------------------------------------------------------------
(* Numbers: exact rationals and NaN *)

RECURSIVE GCD(_, _)
GCD(a, b) == IF b = 0 THEN a ELSE GCD(b, a % b)

Abs(x) == IF x < 0 THEN 0 - x ELSE x

NaN == [n |-> 0, d |-> 0]
IsNaN(x) == x.d = 0

Norm(n, d) ==
    LET g == GCD(Abs(n), d) IN [n |-> n \div g, d |-> d \div g]

Rat(i) == [n |-> i, d |-> 1]
Zero == Rat(0)

RAdd(x, y) ==
    IF IsNaN(x) \/ IsNaN(y) THEN NaN
    ELSE Norm(x.n * y.d + y.n * x.d, x.d * y.d)

RSub(x, y) ==
    IF IsNaN(x) \/ IsNaN(y) THEN NaN
    ELSE Norm(x.n * y.d - y.n * x.d, x.d * y.d)

\* x / k for an integer k > 0
RDivInt(x, k) == IF IsNaN(x) THEN NaN ELSE Norm(x.n, x.d * k)

\* the comparisons of an integer with a float
IntLt(i, x) == ~IsNaN(x) /\ i * x.d < x.n
IntLe(i, x) == ~IsNaN(x) /\ i * x.d <= x.n

RECURSIVE RSum(_, _, _, _)
\* sum of axis a of sig over numpy indices lo .. hi-1
RSum(sig, lo, hi, a) ==
    IF lo >= hi THEN Zero
    ELSE RAdd(sig[lo + 1][a + 1], RSum(sig, lo + 1, hi, a))

\* np.mean(sig[lo:hi, a]); the mean of an empty slice is nan
Mean(sig, lo, hi, a) ==
    IF lo >= hi THEN NaN ELSE RDivInt(RSum(sig, lo, hi, a), hi - lo)

\* an integer-valued signal as floats
AsFloat(sig) == [k \in 1..Len(sig) |-> [a \in 1..3 |-> Rat(sig[k][a])]]

----------------------------------------------------------------------------
(* step_ID *)

Vertical(sig) == [k \in 1..Len(sig) |-> sig[k][3]]

\* the comparison the other way round
Compare_below(vert, threshold) ==
    [k \in 1..Len(vert) |-> IF vert[k] < threshold THEN 1 ELSE 0]

\* compare = (force[:,2] > threshold).astype(int)
Compare(vert, threshold) ==
    [k \in 1..Len(vert) |-> IF vert[k] > threshold THEN 1 ELSE 0]

\* events = np.diff(compare)
Diff(c) == [k \in 1..(Len(c) - 1) |-> c[k + 1] - c[k]]

RECURSIVE NonzeroFrom(_, _, _)
\* the numpy indices >= k-1 at which ev equals v, ascending
NonzeroFrom(ev, v, k) ==
    IF k > Len(ev) THEN <<>>
    ELSE IF ev[k] = v THEN <<k - 1>> \o NonzeroFrom(ev, v, k + 1)
    ELSE NonzeroFrom(ev, v, k + 1)

\* np.squeeze(np.asarray(np.nonzero(events == v)).transpose()): an (M,1)
\* array squeezed, which is 0-dimensional when M = 1
Squeeze(idx) == [ndim |-> IF Len(idx) = 1 THEN 0 ELSE 1, data |-> idx]

RECURSIVE SelectSeq2(_, _, _)
\* a[mask]: the entries of a whose mask entry is TRUE
SelectSeq2(a, mask, k) ==
    IF k > Len(a) THEN <<>>
    ELSE IF mask[k] THEN <<a[k]>> \o SelectSeq2(a, mask, k + 1)
    ELSE SelectSeq2(a, mask, k + 1)

\* step_end[step_end > step_begin[0]]
DropLeadingEnds(step_end, first_begin) ==
    SelectSeq2(step_end,
               [k \in 1..Len(step_end) |-> step_end[k] > first_begin], 1)

\* step_begin[0:n]
Prefix(a, n) == SubSeq(a, 1, IF n < Len(a) THEN n ELSE Len(a))

\* good_step = np.logical_and(step_len >= min_step, step_len <= max_step)
GoodStep(step_len, mn, mx) ==
    [k \in 1..Len(step_len) |-> step_len[k] >= mn /\ IntLe(step_len[k], mx)]

\* the guard with <= for <
ConfigOK_le(mn, mx) == IntLe(mn, mx)

\* the guard of step_ID
ConfigOK(mn, mx) == IntLt(mn, mx)

Raised(what) == [ok |-> FALSE, exc |-> what, begins |-> <<>>, ends |-> <<>>]
Returned(b, e) == [ok |-> TRUE, exc |-> "", begins |-> b, ends |-> e]

ConfigError == "IndexError: Did not separate steps"
EmptyIndexError == "IndexError: index 0 is out of bounds"
ScalarIndexError == "IndexError: too many indices for array"

\* lines 41-60, with the guard passed
SeparateSteps(sig, threshold, mn, mx) ==
    LET compare == Compare(Vertical(sig), threshold)
        events == Diff(compare)
        step_begin == Squeeze(NonzeroFrom(events, 1, 1))
        step_end0 == NonzeroFrom(events, 0 - 1, 1)
    IN  IF step_begin.ndim = 0 THEN Raised(ScalarIndexError)
        ELSE IF Len(step_begin.data) = 0 THEN Raised(EmptyIndexError)
        ELSE
          LET step_end == DropLeadingEnds(step_end0, step_begin.data[1])
              begin == Prefix(step_begin.data, Len(step_end))
              step_len == [k \in 1..Len(begin) |-> step_end[k] - begin[k]]
              good_step == GoodStep(step_len, mn, mx)
          IN  Returned(SelectSeq2(begin, good_step, 1),
                       SelectSeq2(step_end, good_step, 1))

step_ID(sig, threshold, fs, mn, mx) ==
    IF ConfigOK(mn, mx) THEN SeparateSteps(sig, threshold, mn, mx)
    ELSE Raised(ConfigError)

----------------------------------------------------------------------------
(* trim_aerial_phases *)

\* force[begin[0]:end[1],2]
Window(sig, begin, end) ==
    [w \in 1..(end[2] - begin[1]) |-> sig[begin[1] + w][3]]

RECURSIVE FirstNonzero(_, _, _)
\* (window == value).nonzero()[0][0]
FirstNonzero(window, value, w) ==
    IF window[w] = value THEN w - 1 ELSE FirstNonzero(window, value, w + 1)

\* start_a.nonzero()[0][0]: first sample of the plot equal to force[end[0],2]
StartA(sig, begin, end) ==
    FirstNonzero(Window(sig, begin, end), sig[end[1] + 1][3], 1)

\* end_a.nonzero()[0][0]: first sample of the plot equal to force[begin[1],2]
EndA(sig, begin, end) ==
    FirstNonzero(Window(sig, begin, end), sig[begin[2] + 1][3], 1)

\* the check without its upper half
OutOfRange_low(pts, s, e) == \E k \in 1..2 : pts[k] < s

\* sum(points[:,0] < start) > 0 or sum(points[:,0] > end) > 0
OutOfRange(pts, s, e) ==
    \/ \E k \in 1..2 : pts[k] < s
    \/ \E k \in 1..2 : pts[k] > e

\* points[1,0] < points[0,0]
WrongOrder(pts) == pts[2] < pts[1]

\* np.round(x / 2): halves go to the even neighbour
RoundHalf(x) ==
    IF x % 2 = 0 THEN x \div 2
    ELSE LET lo == (x - 1) \div 2 IN IF lo % 2 = 0 THEN lo ELSE lo + 1

\* trim = np.round((points[0,0]-start + end-points[1,0])/2).astype(int)
TrimOf(pts, s, e) == RoundHalf((pts[1] - s) + (e - pts[2]))

\* aerial_len = begin[1:] - end[:-1]
AerialLen(begin, end) == [i \in 1..(Len(begin) - 1) |-> begin[i + 1] - end[i]]

\* np.any(aerial_len < trim*2)
TrimTooLong(aerial_len, t) == \E i \in 1..Len(aerial_len) : aerial_len[i] < t * 2

RangeMessage == "Can't trim negative amount. Select 2 points between start/end of aerial phase"
OrderMessage == "First select amount to trim off the start, then select the amount to trim off the end of aerial phase"
TrimMessage == "trimming frames from the start/end of aerial phase"

TrimError == "IndexError: Trim amount is greater than aerial phase length"
PlotIndexError == "IndexError: index is out of bounds"
ShapeError == "ValueError: force data must be Nx3 columns"

----------------------------------------------------------------------------
(* detrend_force *)

\* max_step = 0.4*Fs
MaxStepOf(fs) == Norm(2 * fs, 5)

\* aerial_means[i,:] for every aerial phase
AerialMeansOf(sig, ab, ae, t) ==
    [i \in 1..Len(ab) |->
        [a \in 1..3 |-> Mean(AsFloat(sig), ab[i] + t, ae[i] - t, a - 1)]]

\* force_fd starting as a copy of force_f
ZerosLike_copy(sig) == AsFloat(sig)

\* force_fd = np.zeros(force_f.shape)
ZerosLike(sig) == [k \in 1..Len(sig) |-> <<Zero, Zero, Zero>>]

\* the mean of the aerial phase before the step alone
DiffTemp_single(am, i) == am[i + 1][3]

\* diff_temp = (aerial_means[i,2]+aerial_means[i+1,2])/2
DiffTemp(am, i) == RDivInt(RAdd(am[i + 1][3], am[i + 2][3]), 2)

\* range(aerial_means.shape[0]-1)
DetrendRange(am) == 0..(Len(am) - 2)

\* force_fd[lo:hi,:] = force_f[lo:hi,:] - diff_temp
Subtract(fd, sig, lo, hi, b) ==
    [k \in 1..Len(fd) |->
        IF lo <= k - 1 /\ k - 1 < hi
        THEN [a \in 1..3 |-> RSub(Rat(sig[k][a]), b)]
        ELSE fd[k]]

RECURSIVE DetrendLoop(_, _, _, _, _)
\* the loop of lines 256-259 from iteration i on
DetrendLoop(i, fd, sig, begin, am) ==
    IF i \notin DetrendRange(am) THEN fd
    ELSE DetrendLoop(i + 1,
                     Subtract(fd, sig, begin[i + 1], begin[i + 2], DiffTemp(am, i)),
                     sig, begin, am)

\* aerial_means_d[i] before the zero filter
RawMeansD(fd, ab, ae, t) ==
    [i \in 1..Len(ab) |-> Mean(fd, ab[i] + t, ae[i] - t, 2)]

\* aerial_means_d[aerial_means_d != 0.0]
DropZeros(m) == SelectSeq2(m, [i \in 1..Len(m) |-> m[i] # Zero], 1)

----------------------------------------------------------------------------
(* detrend_force as a state machine *)

\* the state on entry to detrend_force, for tables of at most N rows
Entry(N) ==
    /\ pc = "readcheck_input"
    /\ exc = ""
    /\ force \in [rows : 1..N, cols : {3, 4}]
    /\ Fs \in FsSet
    /\ min_step \in MinSteps
    /\ step_threshold \in RunThresholds
    /\ max_step = NaN
    /\ force_f = <<>>
    /\ step_begin_all = <<>>
    /\ step_end_all = <<>>
    /\ aerial_begin_all = <<>>
    /\ aerial_end_all = <<>>
    /\ points = <<>>
    /\ printed = ""
    /\ trim = <<>>
    /\ aerial_means = <<>>
    /\ force_fd = <<>>
    /\ aerial_means_d = <<>>
    /\ calls = <<>>

Init == Entry(MaxN)

params == <<force, Fs, min_step, step_threshold, calls>>
clicks == <<points, printed>>
segments == <<step_begin_all, step_end_all, aerial_begin_all, aerial_end_all>>
results == <<aerial_means, force_fd, aerial_means_d>>

\* force = readcheck_input(filename)
ReadCheckInput ==
    /\ pc = "readcheck_input"
    /\ IF force.cols = 3
       THEN pc' = "filtfilt" /\ exc' = exc
       ELSE pc' = "raised" /\ exc' = ShapeError
    /\ UNCHANGED <<params, max_step, force_f, segments, clicks, trim, results>>

\* force_f = filtfilt(b,a,force,axis = 0): some signal of the shape of force
Filter ==
    /\ pc = "filtfilt"
    /\ force_f' \in Signals(force.rows)
    /\ pc' = "step_ID"
    /\ UNCHANGED <<exc, params, max_step, segments, clicks, trim, results>>

\* lines 225-231: split steps and create aerial phases
SplitSteps ==
    /\ pc = "step_ID"
    /\ max_step' = MaxStepOf(Fs)
    /\ LET r == step_ID(force_f, step_threshold, Fs, min_step, max_step')
       IN  IF r.ok
           THEN /\ step_begin_all' = r.begins
                /\ step_end_all' = r.ends
                /\ aerial_begin_all' = SubSeq(r.ends, 1, Len(r.ends) - 1)
                /\ aerial_end_all' = SubSeq(r.begins, 2, Len(r.begins))
                /\ pc' = "trim_aerial_phases"
                /\ exc' = exc
           ELSE /\ pc' = "raised"
                /\ exc' = r.exc
                /\ UNCHANGED segments
    /\ UNCHANGED <<params, force_f, clicks, trim, results>>

\* lines 107-117: the plot of the first two steps and its two black lines
TrimPlot ==
    /\ pc = "trim_aerial_phases"
    /\ IF Len(step_begin_all) < 2
       THEN pc' = "raised" /\ exc' = PlotIndexError
       ELSE pc' = "ginput" /\ exc' = exc
    /\ UNCHANGED <<params, max_step, force_f, segments, clicks, trim, results>>

\* points = np.asarray(plt.ginput(2, timeout = 0),dtype = int)
Ginput ==
    /\ pc = "ginput"
    /\ points' \in Clicks \X Clicks
    /\ pc' = "check_points"
    /\ UNCHANGED <<exc, params, max_step, force_f, segments, printed, trim, results>>

\* lines 124-134: the two checks of the selection
CheckPoints ==
    /\ pc = "check_points"
    /\ LET s == StartA(force_f, step_begin_all, step_end_all)
           e == EndA(force_f, step_begin_all, step_end_all)
       IN  IF OutOfRange(points, s, e)
           THEN pc' = "ginput" /\ printed' = RangeMessage /\ trim' = trim
           ELSE IF WrongOrder(points)
           THEN pc' = "ginput" /\ printed' = OrderMessage /\ trim' = trim
           ELSE /\ pc' = "aerial_len"
                /\ printed' = TrimMessage
                /\ trim' = <<TrimOf(points, s, e)>>
    /\ points' = <<>>
    /\ UNCHANGED <<exc, params, max_step, force_f, segments, results>>

\* lines 137-142: the aerial phase length check and the return
CheckAerialLen ==
    /\ pc = "aerial_len"
    /\ IF TrimTooLong(AerialLen(step_begin_all, step_end_all), trim[1])
       THEN pc' = "raised" /\ exc' = TrimError /\ trim' = <<>>
       ELSE pc' = "aerial_means" /\ exc' = exc /\ trim' = trim
    /\ UNCHANGED <<params, max_step, force_f, segments, clicks, results>>

\* lines 241-245
AerialMeans ==
    /\ pc = "aerial_means"
    /\ aerial_means' =
           AerialMeansOf(force_f, aerial_begin_all, aerial_end_all, trim[1])
    /\ pc' = "detrend"
    /\ UNCHANGED <<exc, params, max_step, force_f, segments, clicks, trim,
                   force_fd, aerial_means_d>>

\* lines 253-259
Detrend ==
    /\ pc = "detrend"
    /\ force_fd' =
           DetrendLoop(0, ZerosLike(force_f), force_f, step_begin_all, aerial_means)
    /\ pc' = "aerial_means_d"
    /\ UNCHANGED <<exc, params, max_step, force_f, segments, clicks, trim,
                   aerial_means, aerial_means_d>>

\* lines 278-305
AerialMeansD ==
    /\ pc = "aerial_means_d"
    /\ aerial_means_d' =
           DropZeros(RawMeansD(force_fd, aerial_begin_all, aerial_end_all, trim[1]))
    /\ pc' = "returned"
    /\ UNCHANGED <<exc, params, max_step, force_f, segments, clicks, trim,
                   aerial_means, force_fd>>

Next ==
    \/ ReadCheckInput
    \/ Filter
    \/ SplitSteps
    \/ TrimPlot
    \/ Ginput
    \/ CheckPoints
    \/ CheckAerialLen
    \/ AerialMeans
    \/ Detrend
    \/ AerialMeansD

Spec == Init /\ [][Next]_vars

\* every statement of the program runs once it is reached; only the answer
\* of ginput is awaited without a time limit
\* the fair runs are those on tables one row shorter than the tables of Spec
FairInit == Entry(MaxN - 1)
FairSpec ==
    FairInit /\ [][Next]_vars /\ WF_vars(CheckPoints) /\ WF_vars(CheckAerialLen)

----------------------------------------------------------------------------
(* step_ID called directly, once per threshold, on one signal *)

\* step_threshold = 100, the default of detrend_force
DefaultThreshold == 100

MaxSteps == {Norm(3, 2), Rat(3)}

SegInit ==
    /\ pc = "harness"
    /\ exc = ""
    /\ force \in [rows : 1..MaxN, cols : {3}]
    /\ Fs \in FsSet
    /\ min_step \in MinSteps
    /\ step_threshold = DefaultThreshold
    /\ max_step \in MaxSteps
    /\ force_f \in Signals(force.rows)
    /\ step_begin_all = <<>>
    /\ step_end_all = <<>>
    /\ aerial_begin_all = <<>>
    /\ aerial_end_all = <<>>
    /\ points = <<>>
    /\ printed = ""
    /\ trim = <<>>
    /\ aerial_means = <<>>
    /\ force_fd = <<>>
    /\ aerial_means_d = <<>>
    /\ calls = <<>>

SegCall ==
    /\ pc = "harness"
    /\ \E t \in Thresholds \ DOMAIN calls :
          calls' = (t :> step_ID(force_f, t, Fs, min_step, max_step)) @@ calls
    /\ UNCHANGED <<pc, exc, force, Fs, min_step, step_threshold, max_step,
                   force_f, segments, clicks, trim, results>>

SegNext == SegCall

SegSpec == SegInit /\ [][SegNext]_vars

----------------------------------------------------------------------------
(* Vocabulary of the properties *)

\* number of validated stance phases
K == Len(step_begin_all)

\* vertical force of the filtered signal at numpy index n
V(n) == force_f[n + 1][3]

AfterTrim == pc \in {"aerial_means", "detrend", "aerial_means_d", "returned"}
AfterDetrend == pc \in {"aerial_means_d", "returned"}

Paired(b, e) ==
    /\ Len(b) = Len(e)
    /\ \A i \in 1..Len(b) :
          /\ b[i] < e[i]
          /\ i < Len(b) => e[i] < b[i + 1]

----------------------------------------------------------------------------
(* C1 *)

\* C1: for every signal of N >= 1 samples, every threshold and every
\* min_step < max_step, step_ID returns begins and ends of equal length with
\* begins[i] < ends[i] < begins[i+1], also when the signal has no rising
\* edge or only one.
C1_PairingOnEverySignal ==
    \A t \in DOMAIN calls :
        IntLt(min_step, max_step) =>
            /\ calls[t].ok
            /\ Paired(calls[t].begins, calls[t].ends)

\* what does hold of step_ID: the pairing whenever it returns
C1_PairingWhenReturned ==
    \A t \in DOMAIN calls :
        calls[t].ok => Paired(calls[t].begins, calls[t].ends)

----------------------------------------------------------------------------
(* C8 *)

\* C8: for every returned pair (begins[i], ends[i]) the vertical force is
\* above the threshold at every index n with begins[i] <= n < ends[i] and is
\* not above it at ends[i].
C8_StanceIsHalfOpenRun ==
    \A t \in DOMAIN calls :
        calls[t].ok =>
            \A i \in 1..Len(calls[t].begins) :
                /\ \A n \in calls[t].begins[i]..(calls[t].ends[i] - 1) : V(n) > t
                /\ ~(V(calls[t].ends[i]) > t)

----------------------------------------------------------------------------
(* C5 *)

\* C5 as stated: for thresholds t1 < t2 on one signal, step_ID detects at t2
\* no more stance phases than at t1.
C5_CountNeverIncreases ==
    \A t1, t2 \in DOMAIN calls :
        (t1 < t2 /\ calls[t1].ok /\ calls[t2].ok) =>
            Len(calls[t2].begins) <= Len(calls[t1].begins)

\* C5 amended: for thresholds t1 < t2 on one signal, every stance phase
\* step_ID returns at t2 has all the samples of its span, the indices n with
\* begins[i] < n <= ends[i], above t1 as well; the count may grow.
C5_HigherStanceInsideLower ==
    \A t1, t2 \in DOMAIN calls :
        (t1 < t2 /\ calls[t2].ok) =>
            \A i \in 1..Len(calls[t2].begins) :
                \A n \in (calls[t2].begins[i] + 1)..calls[t2].ends[i] : V(n) > t1

\* C5 reached: both thresholds tried, and more stance phases at the higher
C5_Witness ==
    \E t1, t2 \in DOMAIN calls :
        /\ t1 < t2
        /\ calls[t1].ok
        /\ calls[t2].ok
        /\ Len(calls[t2].begins) > Len(calls[t1].begins)
        /\ Len(calls[t1].begins) > 0

----------------------------------------------------------------------------
(* C6 *)

NothingSegmented ==
    /\ step_begin_all = <<>>
    /\ step_end_all = <<>>
    /\ aerial_begin_all = <<>>
    /\ aerial_end_all = <<>>

NothingEstimated ==
    /\ points = <<>>
    /\ printed = ""
    /\ trim = <<>>
    /\ aerial_means = <<>>
    /\ force_fd = <<>>
    /\ aerial_means_d = <<>>

\* C6 as stated: the configuration error of min_step >= max_step is raised
\* before any computation, filtering included.
C6_RaisedBeforeAnyComputation ==
    exc = ConfigError => (force_f = <<>> /\ NothingSegmented /\ NothingEstimated)

\* C6 amended: whenever min_step >= 0.4*Fs the run of detrend_force ends
\* with the configuration error as soon as step_ID is called: no begins or
\* ends are returned and no trim request or baseline estimation has happened;
\* the table has been read and filtered before.
C6_ConfigErrorAtStepID ==
    (pc \notin {"readcheck_input", "filtfilt", "step_ID"}
        /\ exc # ShapeError
        /\ 5 * min_step >= 2 * Fs) =>
            /\ pc = "raised"
            /\ exc = ConfigError
            /\ Len(force_f) = force.rows
            /\ NothingSegmented
            /\ NothingEstimated

\* C6 reached: min_step = 0.4*Fs on a filtered signal with a rising edge
C6_Witness ==
    /\ pc = "raised"
    /\ exc = ConfigError
    /\ 5 * min_step = 2 * Fs
    /\ \E n \in 0..(Len(force_f) - 2) : V(n) <= step_threshold /\ V(n + 1) > step_threshold

----------------------------------------------------------------------------
(* C2 *)

\* C2: trim_aerial_phases returns a trim only when 2*trim is below the
\* length of every aerial phase; a phase of length <= 2*trim, the length
\* 2*trim included, makes it fail with the segmentation error.
C2_TrimBelowHalfOfEveryPhase ==
    AfterTrim =>
        \A i \in 1..(K - 1) :
            2 * trim[1] < step_begin_all[i + 1] - step_end_all[i]

----------------------------------------------------------------------------
(* C3 *)

\* the baseline of step i (numpy index), from the means bracketing it
Baseline(i) ==
    RDivInt(RAdd(aerial_means[i + 1][3], aerial_means[i + 2][3]), 2)

CorrectedBy(i) ==
    \A n \in step_begin_all[i + 1]..(step_begin_all[i + 2] - 1) :
        \A a \in 1..3 :
            force_fd[n + 1][a] = RSub(Rat(force_f[n + 1][a]), Baseline(i))

\* step i has one baseline, whatever it is, subtracted on all three axes
CorrectedBySome(i) ==
    \A n \in step_begin_all[i + 1]..(step_begin_all[i + 2] - 1) :
        \A a \in 1..3 :
            RSub(Rat(force_f[n + 1][a]), force_fd[n + 1][a]) =
                RSub(Rat(force_f[n + 1][3]), force_fd[n + 1][3])

\* C3 as stated: for every step i from 0 to K-2 and every sample n in
\* [begins[i], begins[i+1]) the corrected output is the filtered input minus
\* b_i = (aerial_means[i].vertical + aerial_means[i+1].vertical) / 2 on all
\* three axes (for step K-2, whose aerial_means[K-1] does not exist, minus
\* any one baseline).
C3_CorrectedUpToLastStep ==
    AfterDetrend =>
        \A i \in 0..(K - 2) :
            \/ i + 2 <= Len(aerial_means) /\ CorrectedBy(i)
            \/ i + 2 > Len(aerial_means) /\ CorrectedBySome(i)

\* C3 amended: the same for every step i from 0 to K-3: the K-1 aerial means
\* bracket K-2 steps, and the samples of step K-2 are not corrected.
C3_CorrectedUpToLastBracketedStep ==
    AfterDetrend =>
        /\ Len(aerial_means) = K - 1
        /\ \A i \in 0..(K - 3) : CorrectedBy(i)

\* C3 reached: three stance phases, a step corrected by a non-zero baseline
\* that is the mean of two different aerial means
C3_Witness ==
    /\ pc = "returned"
    /\ K >= 3
    /\ aerial_means[1][3] # aerial_means[2][3]
    /\ ~IsNaN(Baseline(0))
    /\ Baseline(0) # Zero

----------------------------------------------------------------------------
(* C4 *)

\* C4: in the signal detrend_force returns, every sample before begins[0] or
\* at or after begins[K-1] is 0 on all three axes, and the signal has the
\* N x 3 shape of the input.
C4_EdgesStayZero ==
    AfterDetrend =>
        /\ Len(force_fd) = force.rows
        /\ \A k \in 1..Len(force_fd) : Len(force_fd[k]) = force.cols
        /\ \A n \in 0..(Len(force_fd) - 1) :
              (n < step_begin_all[1] \/ n >= step_begin_all[K]) =>
                  force_fd[n + 1] = <<Zero, Zero, Zero>>

\* C4 reached: three stance phases, non-zero input on both edges, some
\* sample corrected
C4_Witness ==
    /\ pc = "returned"
    /\ K >= 3
    /\ \E n \in 0..(Len(force_fd) - 1) :
          n >= step_begin_all[K] /\ V(n) # 0
    /\ \E n \in 0..(Len(force_fd) - 1) :
          n < step_begin_all[1] /\ V(n) # 0
    /\ \E n \in 0..(Len(force_fd) - 1) : force_fd[n + 1][3] # Zero

----------------------------------------------------------------------------
(* C7 *)

\* C7: the post-correction means hold, in order, one entry for every aerial
\* phase the correction loop has corrected (phases 0 .. K-3): none of them is
\* dropped, whatever the pre-correction means are.
C7_NoCorrectedPhaseDropped ==
    pc = "returned" =>
        /\ Len(aerial_means_d) >= K - 2
        /\ \A i \in 1..(K - 2) :
              aerial_means_d[i] =
                  Mean(force_fd, aerial_begin_all[i] + trim[1],
                       aerial_end_all[i] - trim[1], 2)

----------------------------------------------------------------------------
(* C10 *)

\* C10: no sample after ends[i] and up to begins[i+1] of an aerial phase of
\* detrend_force is above the threshold.
C10_NoContactInAerialPhase ==
    pc \in {"trim_aerial_phases", "ginput", "check_points", "aerial_len"}
            \cup {"aerial_means", "detrend", "aerial_means_d", "returned"} =>
        \A i \in 1..Len(aerial_begin_all) :
            \A n \in (aerial_begin_all[i] + 1)..aerial_end_all[i] :
                ~(V(n) > step_threshold)

----------------------------------------------------------------------------
(* C9 *)

\* the two edges of the first aerial phase on the plot
Edge1 == StartA(force_f, step_begin_all, step_end_all)
Edge2 == EndA(force_f, step_begin_all, step_end_all)

\* both points between the edges, the first not after the second
ValidSelection ==
    /\ Edge1 <= points[1]
    /\ points[1] <= points[2]
    /\ points[2] <= Edge2

Acquiring == pc \in {"ginput", "check_points"}

\* t is x/2 rounded to the nearest integer, a half to the even one
IsRounded(t, x) ==
    IF x % 2 = 0 THEN 2 * t = x
    ELSE (2 * t = x + 1 \/ 2 * t = x - 1) /\ t % 2 = 0

C9_Rejected ==
    (pc = "check_points" /\ ~ValidSelection) =>
        /\ pc' = "ginput"
        /\ UNCHANGED <<exc, params, max_step, force_f, segments, trim, results>>
        /\ exc = "" /\ trim = <<>>

C9_Accepted ==
    (Acquiring /\ ~Acquiring') =>
        /\ pc = "check_points"
        /\ ValidSelection
        /\ pc' = "aerial_len"
        /\ exc' = ""
        /\ Len(trim') = 1
        /\ trim'[1] >= 0
        /\ IsRounded(trim'[1], (points[1] - Edge1) + (Edge2 - points[2]))

\* C9: a selection with a point outside the two edges, or with the second
\* point before the first, never ends the run and never gives a trim: it
\* changes nothing and leads to another request; trim acquisition is left
\* only on a selection passing both checks, with
\* trim = round((offset_start + offset_end) / 2) >= 0; and a valid selection
\* once supplied ends the acquisition.
C9_TrimAcquisition ==
    /\ [][C9_Rejected /\ C9_Accepted]_vars
    /\ (pc = "check_points" /\ ValidSelection) ~> (pc = "aerial_len")

\* an accepted selection whose offsets sum to 3: trim = round(1.5) = 2
C9_AcceptedReached ==
    /\ pc = "aerial_len"
    /\ trim = <<2>>

\* C9 reached: a selection in the wrong order has been refused and the
\* program is asking again, with no trim and no exception
C9_WitnessRejected ==
    /\ pc = "ginput"
    /\ printed = OrderMessage
    /\ trim = <<>>
    /\ exc = ""

====
